---- MODULE Spec2Model ----
(***************************************************************************)
(* introspectardio: a fixed-rate two-asset swap program.  The model covers *)
(* the program's two handlers (process_init, process_swap), the validator  *)
(* validate_prev_ix, the rate conversion, and the collaborators the        *)
(* handlers call: the account-creation service, the token service, the     *)
(* instruction-introspection register and the host's transaction loop.     *)
(*                                                                         *)
(* Integers wider than 31 bits are kept exactly: a u64 is a sequence of 8  *)
(* little-endian bytes and a U128 a sequence of 16, which is also how the  *)
(* program reads them from payloads (read_unaligned on little-endian).     *)
(***************************************************************************)
EXTENDS Integers, Sequences, FiniteSets, TLC

-----------------------------------------------------------------------------
(* Bounds of the model.                                                    *)

\* instructions per transaction
MaxTxLen == 2

\* committed transactions per behaviour
MaxCommits == 1

-----------------------------------------------------------------------------
(* Exact unsigned arithmetic on little-endian byte sequences.              *)

ZeroBytes ==
    <<0, 0, 0, 0, 0, 0, 0, 0, 0, 0, 0, 0, 0, 0, 0, 0,
      0, 0, 0, 0, 0, 0, 0, 0, 0, 0, 0, 0, 0, 0, 0, 0,
      0, 0, 0, 0, 0, 0, 0, 0, 0, 0, 0, 0, 0, 0, 0, 0,
      0, 0, 0, 0, 0, 0, 0, 0, 0, 0, 0, 0, 0, 0, 0, 0>>

\* n zero bytes, n <= 64
Zeros(n) == SubSeq(ZeroBytes, 1, n)

RECURSIVE Trim(_)
Trim(x) ==
    IF x = <<>> THEN <<>>
    ELSE IF x[Len(x)] = 0 THEN Trim(SubSeq(x, 1, Len(x) - 1)) ELSE x

\* the value x written on exactly n bytes (x must fit)
Pad(x, n) == LET t == Trim(x) IN t \o Zeros(n - Len(t))

\* x < 2^(8n)
Fits(x, n) == Len(Trim(x)) <= n

RECURSIVE CmpFrom(_, _, _)
CmpFrom(x, y, i) ==
    IF i = 0 THEN 0
    ELSE IF x[i] < y[i] THEN -1
    ELSE IF x[i] > y[i] THEN 1
    ELSE CmpFrom(x, y, i - 1)

BigCmp(x, y) ==
    LET n == IF Len(x) > Len(y) THEN Len(x) ELSE Len(y)
    IN  CmpFrom(x \o Zeros(n - Len(x)), y \o Zeros(n - Len(y)), n)

BigLess(x, y) == BigCmp(x, y) < 0

BigLeq(x, y) == BigCmp(x, y) <= 0

RECURSIVE AddFrom(_, _, _, _)
AddFrom(x, y, i, carry) ==
    IF i > Len(x) THEN (IF carry = 0 THEN <<>> ELSE <<carry>>)
    ELSE LET s == x[i] + y[i] + carry
         IN  <<s % 256>> \o AddFrom(x, y, i + 1, s \div 256)

BigAdd(x, y) ==
    LET n == IF Len(x) > Len(y) THEN Len(x) ELSE Len(y)
    IN  AddFrom(x \o Zeros(n - Len(x)), y \o Zeros(n - Len(y)), 1, 0)

RECURSIVE SubFrom(_, _, _, _)
SubFrom(x, y, i, borrow) ==
    IF i > Len(x) THEN <<>>
    ELSE LET d == x[i] - y[i] - borrow
         IN  IF d < 0 THEN <<d + 256>> \o SubFrom(x, y, i + 1, 1)
                      ELSE <<d>> \o SubFrom(x, y, i + 1, 0)

\* x - y for y <= x, on Len(x) bytes
BigSub(x, y) == SubFrom(x, y \o Zeros(Len(x) - Len(y)), 1, 0)

RECURSIVE MulByteFrom(_, _, _, _)
MulByteFrom(x, b, i, carry) ==
    IF i > Len(x) THEN (IF carry = 0 THEN <<>> ELSE <<carry>>)
    ELSE LET p == x[i] * b + carry
         IN  <<p % 256>> \o MulByteFrom(x, b, i + 1, p \div 256)

RECURSIVE MulFrom(_, _, _, _)
MulFrom(x, y, j, acc) ==
    IF j > Len(y) THEN acc
    ELSE IF y[j] = 0 THEN MulFrom(x, y, j + 1, acc)
    ELSE LET sum == BigAdd(acc, Zeros(j - 1) \o MulByteFrom(x, y[j], 1, 0))
         IN  IF Len(sum) >= 0 THEN MulFrom(x, y, j + 1, sum) ELSE <<>>

\* the full product, of any length
BigMul(x, y) == Trim(MulFrom(Trim(x), Trim(y), 1, <<>>))

RECURSIVE DivFrom(_, _, _, _)
DivFrom(x, d, i, rem) ==
    IF i = 0 THEN <<>>
    ELSE LET cur == rem * 256 + x[i]
         IN  IF cur >= 0 THEN DivFrom(x, d, i - 1, cur % d) \o <<cur \div d>> ELSE <<>>

\* floor(x / d) on Len(x) bytes, for a divisor 0 < d < 2^23 (long division)
BigDivSmall(x, d) == DivFrom(x, d, Len(x), 0)

\* x / 1_000_000_000 on Len(x) bytes: floor(floor(x / 31250) / 32000)
BigDiv1e9(x) == Pad(BigDivSmall(BigDivSmall(Trim(x), 31250), 32000), Len(x))

RECURSIVE FromNat(_)
FromNat(n) == IF n = 0 THEN <<>> ELSE <<n % 256>> \o FromNat(n \div 256)

U64(n) == Pad(FromNat(n), 8)

U64_MAX == <<255, 255, 255, 255, 255, 255, 255, 255>>

U128_MAX == U64_MAX \o U64_MAX

\* U128::from(u64): zero extension
U128_from(x) == x \o Zeros(8)

-----------------------------------------------------------------------------
(* Account identities.  A base identity is a one-element sequence; a       *)
(* derived identity is the marker 0 followed by the deriving program and   *)
(* the concatenated seeds, which is what the hash binds.                   *)

ID == <<5>>

TOKEN_PROGRAM == <<6>>

\* the account-creation service; its identity is the all-zero key
SYSTEM_PROGRAM == <<1>>

\* the host's instruction-introspection register
INSTRUCTIONS_ID == <<2>>

\* some other deployed program, and an account whose data it has written
OTHER_PROGRAM == <<7>>

OTHER_DATA == <<8>>

\* an account of OTHER_PROGRAM holding a copy of a pool record at another rate
FAKE_POOL == <<9>>

\* another account whose data OTHER_PROGRAM has written
SHORT_DATA == <<16>>

\* funding account and depositor: it signs every transaction
USER == <<10>>

MINT_A == <<11>>

MINT_B == <<12>>

\* an identity that holds no mint
NOT_MINT == <<13>>

USER_ATA_A == <<14>>

USER_ATA_B == <<15>>

\* the bump the downward search ends at: a function of the hashed bytes
BumpOf(bytes) == 255 - (Len(bytes) % 3)

find_program_address(seeds, program_id) ==
    LET bytes == seeds[1] \o seeds[2]
    IN  [key |-> <<0>> \o program_id \o bytes, bump |-> BumpOf(bytes)]

\* the address a signing capability (seed, seed, bump) of program_id stands for
create_program_address(s, program_id) ==
    LET pda == find_program_address(<<s.s1, s.s2>>, program_id)
    IN  IF s.bump = pda.bump THEN pda.key
        ELSE <<0>> \o program_id \o s.s1 \o s.s2 \o <<s.bump>>

Seeds(s1, s2, bump) == [s1 |-> s1, s2 |-> s2, bump |-> bump]

POOL == find_program_address(<<MINT_A, MINT_B>>, ID).key

VAULT_A == find_program_address(<<POOL, MINT_A>>, ID).key

VAULT_B == find_program_address(<<POOL, MINT_B>>, ID).key

\* the mint pairs Initialize is tried with
MintPairs == {<<MINT_A, MINT_B>>, <<MINT_A, NOT_MINT>>, <<MINT_B, MINT_A>>}

PoolOf(mp) == find_program_address(mp, ID).key

VaultOf(pool, mint) == find_program_address(<<pool, mint>>, ID).key

\* the accounts whose data the model keeps
AccountKeys ==
    {MINT_A, MINT_B, NOT_MINT, USER_ATA_A, USER_ATA_B, OTHER_DATA, FAKE_POOL, SHORT_DATA}
    \cup {PoolOf(mp) : mp \in MintPairs}
    \cup {VaultOf(PoolOf(mp), mp[1]) : mp \in MintPairs}
    \cup {VaultOf(PoolOf(mp), mp[2]) : mp \in MintPairs}

\* the transaction's signers
TxSigners == {USER}

-----------------------------------------------------------------------------
(* Error codes.                                                            *)

Ok == [kind |-> "Ok", code |-> 0]

ProgramError(kind) == [kind |-> kind, code |-> 0]

Custom(n) == [kind |-> "Custom", code |-> n]

\* #[repr(u32)] enum: the discriminant is the position of the variant
IntrospectardioError(name) ==
    CASE name = "PrevIxNotTokenProgram" -> 0
      [] name = "UnexpectedTokenProgramDataLen" -> 1
      [] name = "UnexpectedTokenProgramIx" -> 2
      [] name = "UnexpectedTransferDest" -> 3
      [] name = "LargeOrder" -> 4

\* impl From<IntrospectardioError> for ProgramError
ErrorFrom(name) == Custom(IntrospectardioError(name))

\* the token service's error codes
TokenError(name) ==
    CASE name = "InsufficientFunds" -> Custom(1)
      [] name = "InvalidMint" -> Custom(2)
      [] name = "MintMismatch" -> Custom(3)
      [] name = "OwnerMismatch" -> Custom(4)
      [] name = "AlreadyInUse" -> Custom(6)
      [] name = "UninitializedState" -> Custom(9)
      [] name = "InvalidInstruction" -> Custom(12)
      [] name = "Overflow" -> Custom(14)

\* the account-creation service's error code for an address already in use
SystemAccountAlreadyInUse == Custom(0)

-----------------------------------------------------------------------------
(* Account data.                                                           *)

\* n rounded up to a multiple of a
AlignTo(n, a) == ((n + a - 1) \div a) * a

\* the fields of Pool in declaration order, with their sizes and alignments:
\* U128 is two u64 words, a Pubkey is [u8; 32]
PoolFields ==
    <<[name |-> "usdc_atoms_per_sol", size |-> 16, align |-> 8],
      [name |-> "vault_a",            size |-> 32, align |-> 1],
      [name |-> "vault_b",            size |-> 32, align |-> 1],
      [name |-> "pool_seeds",         size |-> 65, align |-> 1]>>

\* repr(C): each field at the next multiple of its alignment
RECURSIVE offset_of(_, _)
offset_of(fields, i) ==
    IF i = 1 THEN 0
    ELSE AlignTo(offset_of(fields, i - 1) + fields[i - 1].size, fields[i].align)

RECURSIVE align_of(_)
align_of(fields) ==
    IF fields = <<>> THEN 1
    ELSE LET a == align_of(Tail(fields))
         IN  IF fields[1].align > a THEN fields[1].align ELSE a

\* the sum of the field sizes, without the padding
size_of_packed(fields) ==
    offset_of(fields, Len(fields)) + fields[Len(fields)].size

\* repr(C): the end of the last field rounded up to the alignment of the
\* struct
size_of(fields) ==
    AlignTo(offset_of(fields, Len(fields)) + fields[Len(fields)].size, align_of(fields))

\* Pool::LEN
PoolLEN == size_of(PoolFields)

\* the positions of the two mints and of the bump in pool_seeds
PoolSeedsOffsets == [mint_a |-> 0, mint_b |-> 32, bump |-> 64]

TokenAccountLEN == 165

MintLEN == 82

\* a zero-filled Pool; the all-zero key is the account-creation service's
ZeroPool ==
    [usdc_atoms_per_sol |-> Zeros(16),
     vault_a |-> SYSTEM_PROGRAM,
     vault_b |-> SYSTEM_PROGRAM,
     pool_seeds |-> [mint_a |-> SYSTEM_PROGRAM, mint_b |-> SYSTEM_PROGRAM, bump |-> 0]]

ZeroToken ==
    [init |-> FALSE, mint |-> SYSTEM_PROGRAM, owner |-> SYSTEM_PROGRAM, amount |-> Zeros(8)]

\* an address nothing has been created at
EmptyAccount ==
    [owner |-> SYSTEM_PROGRAM, len |-> 0, pool |-> ZeroPool, tok |-> ZeroToken,
     is_mint |-> FALSE]

MintAccount == [EmptyAccount EXCEPT !.owner = TOKEN_PROGRAM, !.len = MintLEN, !.is_mint = TRUE]

\* the authority of both mints
MINT_AUTHORITY == USER

TokenAccount(mint, owner, amount) ==
    [EmptyAccount EXCEPT !.owner = TOKEN_PROGRAM, !.len = TokenAccountLEN,
        !.tok = [init |-> TRUE, mint |-> mint, owner |-> owner, amount |-> amount]]

\* the depositor's base balance before the first transaction
InitialUserBase == Pad(BigMul(U64(3), U64(1000000000)), 8)

\* the record in FAKE_POOL: the vaults and seeds of the pool of (MINT_A,
\* MINT_B), and a rate of 2 * 10^9
FakePoolRecord ==
    [usdc_atoms_per_sol |-> U128_from(U64(2000000000)),
     vault_a |-> VAULT_A,
     vault_b |-> VAULT_B,
     pool_seeds |-> [mint_a |-> MINT_A, mint_b |-> MINT_B,
                     bump |-> find_program_address(<<MINT_A, MINT_B>>, ID).bump]]

InitialAccounts ==
    [k \in AccountKeys |->
        CASE k = MINT_A -> MintAccount
          [] k = MINT_B -> MintAccount
          [] k = USER_ATA_A -> TokenAccount(MINT_A, USER, InitialUserBase)
          [] k = USER_ATA_B -> TokenAccount(MINT_B, USER, Zeros(8))
          [] k = OTHER_DATA -> [EmptyAccount EXCEPT !.owner = OTHER_PROGRAM, !.len = 145]
          [] k = SHORT_DATA -> [EmptyAccount EXCEPT !.owner = OTHER_PROGRAM, !.len = 145]
          [] k = FAKE_POOL -> [EmptyAccount EXCEPT !.owner = OTHER_PROGRAM, !.len = PoolLEN,
                                                   !.pool = FakePoolRecord]
          [] OTHER -> EmptyAccount]

-----------------------------------------------------------------------------
(* Instructions and the services the program calls.                        *)

Instruction(program_id, accounts, data) ==
    [program_id |-> program_id, accounts |-> accounts, data |-> data]

\* one call the program made to a service, and how it ended
Cpi(op, account, to, authority, amount, res) ==
    [op |-> op, account |-> account, to |-> to, authority |-> authority,
     amount |-> amount, res |-> res]

Called(err, st, log) == [err |-> err, accounts |-> st, log |-> log]

\* the keys that sign a call made with these signing capabilities
CpiSigners(signers) == TxSigners \cup {create_program_address(s, ID) : s \in signers}

\* pinocchio_system: create `account` with `space` zero bytes, owned by `owner`
create_account_with_minimum_balance_signed(st, account, space, owner, payer, signers) ==
    LET res ==
            IF account \notin CpiSigners(signers) \/ payer \notin CpiSigners(signers)
            THEN ProgramError("MissingRequiredSignature")
            ELSE IF st[account].len # 0 \/ st[account].owner # SYSTEM_PROGRAM
            THEN SystemAccountAlreadyInUse
            ELSE Ok
        st2 == IF res = Ok
               THEN [st EXCEPT ![account] =
                        [EmptyAccount EXCEPT !.owner = owner, !.len = space]]
               ELSE st
    IN  Called(res, st2, Cpi("create", account, owner, payer, Zeros(8), res))

\* token service, InitializeAccount3
InitializeAccount3(st, account, mint, owner) ==
    LET res ==
            IF st[account].owner # TOKEN_PROGRAM \/ st[account].len # TokenAccountLEN
            THEN ProgramError("InvalidAccountData")
            ELSE IF st[account].tok.init THEN TokenError("AlreadyInUse")
            ELSE IF ~st[mint].is_mint THEN TokenError("InvalidMint")
            ELSE Ok
        st2 == IF res = Ok
               THEN [st EXCEPT ![account].tok =
                        [init |-> TRUE, mint |-> mint, owner |-> owner, amount |-> Zeros(8)]]
               ELSE st
    IN  Called(res, st2, Cpi("initialize_account", account, mint, owner, Zeros(8), res))

IsTokenAccount(st, k) ==
    st[k].owner = TOKEN_PROGRAM /\ st[k].len = TokenAccountLEN

\* token service, Transfer
TokenTransfer(st, from, to, authority, amount, signed) ==
    LET res ==
            IF ~IsTokenAccount(st, from) \/ ~IsTokenAccount(st, to)
            THEN ProgramError("InvalidAccountData")
            ELSE IF ~st[from].tok.init \/ ~st[to].tok.init
            THEN TokenError("UninitializedState")
            ELSE IF BigLess(st[from].tok.amount, amount) THEN TokenError("InsufficientFunds")
            ELSE IF st[from].tok.mint # st[to].tok.mint THEN TokenError("MintMismatch")
            ELSE IF st[from].tok.owner # authority THEN TokenError("OwnerMismatch")
            ELSE IF authority \notin signed THEN ProgramError("MissingRequiredSignature")
            ELSE IF from # to /\ ~Fits(BigAdd(st[to].tok.amount, amount), 8)
            THEN TokenError("Overflow")
            ELSE Ok
        st2 == IF res = Ok /\ from # to
               THEN [st EXCEPT
                        ![from].tok.amount = BigSub(st[from].tok.amount, amount),
                        ![to].tok.amount = Pad(BigAdd(st[to].tok.amount, amount), 8)]
               ELSE st
    IN  Called(res, st2, Cpi("transfer", from, to, authority, amount, res))

\* token service, MintTo
TokenMintTo(st, mint, to, authority, amount, signed) ==
    LET res ==
            IF ~st[mint].is_mint \/ ~IsTokenAccount(st, to)
            THEN ProgramError("InvalidAccountData")
            ELSE IF ~st[to].tok.init THEN TokenError("UninitializedState")
            ELSE IF st[to].tok.mint # mint THEN TokenError("MintMismatch")
            ELSE IF authority # MINT_AUTHORITY THEN TokenError("OwnerMismatch")
            ELSE IF authority \notin signed THEN ProgramError("MissingRequiredSignature")
            ELSE IF ~Fits(BigAdd(st[to].tok.amount, amount), 8) THEN TokenError("Overflow")
            ELSE Ok
        st2 == IF res = Ok
               THEN [st EXCEPT ![to].tok.amount = Pad(BigAdd(st[to].tok.amount, amount), 8)]
               ELSE st
    IN  Called(res, st2, Cpi("mint_to", mint, to, authority, amount, res))

\* the token service's entry point, for the operations the model uses:
\* 3 Transfer, 5 Revoke (no effect on balances), 7 MintTo
process_token(st, accounts, data, signed) ==
    IF data = <<>> THEN Called(TokenError("InvalidInstruction"), st, <<>>)
    ELSE IF data[1] = 3 THEN
        IF Len(data) < 9 THEN Called(TokenError("InvalidInstruction"), st, <<>>)
        ELSE IF Len(accounts) < 3 THEN Called(ProgramError("NotEnoughAccountKeys"), st, <<>>)
        ELSE TokenTransfer(st, accounts[1], accounts[2], accounts[3], SubSeq(data, 2, 9), signed)
    ELSE IF data[1] = 7 THEN
        IF Len(data) < 9 THEN Called(TokenError("InvalidInstruction"), st, <<>>)
        ELSE IF Len(accounts) < 3 THEN Called(ProgramError("NotEnoughAccountKeys"), st, <<>>)
        ELSE TokenMintTo(st, accounts[1], accounts[2], accounts[3], SubSeq(data, 2, 9), signed)
    ELSE IF data[1] = 5 THEN
        IF Len(accounts) < 2 THEN Called(ProgramError("NotEnoughAccountKeys"), st, <<>>)
        ELSE IF ~IsTokenAccount(st, accounts[1]) THEN Called(ProgramError("InvalidAccountData"), st, <<>>)
        ELSE IF st[accounts[1]].tok.owner # accounts[2] THEN Called(TokenError("OwnerMismatch"), st, <<>>)
        ELSE IF accounts[2] \notin signed THEN Called(ProgramError("MissingRequiredSignature"), st, <<>>)
        ELSE Called(Ok, st, <<>>)
    ELSE Called(TokenError("InvalidInstruction"), st, <<>>)

-----------------------------------------------------------------------------
(* The program.                                                            *)

\* a borrow of an account's data the handler holds: "shared" (Ref) or "mut"
\* (RefMut); a Ref or RefMut lives to the end of the handler
Borrow(key, kind) == [key |-> key, kind |-> kind]

\* an account named in a call, writable or read-only
Meta(key, writable) == [key |-> key, writable |-> writable]

\* invoke_signed: a named writable account must have no borrow, a named
\* read-only account no exclusive borrow
invoke_check(held, metas) ==
    IF \E m \in metas : \E h \in held :
          h.key = m.key /\ (m.writable \/ h.kind = "mut")
    THEN ProgramError("AccountBorrowFailed")
    ELSE Ok

\* the accounts named by the three kinds of call the program issues
CreateAccountMetas(payer, account) == {Meta(payer, TRUE), Meta(account, TRUE)}

InitializeAccount3Metas(account, mint) == {Meta(account, TRUE), Meta(mint, FALSE)}

TransferMetas(from, to, authority) ==
    {Meta(from, TRUE), Meta(to, TRUE), Meta(authority, FALSE)}

\* process_init holds nothing when it creates the pool account and the
\* exclusive borrow of the pool record from then on
InitBorrows(pool) == {Borrow(pool, "mut")}

\* the borrows of process_swap without the one of the register
SwapBorrows_pool_only(pool, ix_sysvar) == {Borrow(pool, "shared")}

\* process_swap holds the read borrow of the pool record and the one of the
\* register's data when it issues the transfer
SwapBorrows(pool, ix_sysvar) == {Borrow(pool, "shared"), Borrow(ix_sysvar, "shared")}

\* what a handler returns: the error (or Ok), the accounts as the handler
\* left them, the service calls it made, the amounts it computed, and the
\* step it returned from
Handled(err, st, cpis, amount_in, amount_out, stage) ==
    [err |-> err, accounts |-> st, cpis |-> cpis,
     amount_in |-> amount_in, amount_out |-> amount_out, stage |-> stage]

NoAmount == Zeros(8)

Rejected(err, st, stage) == Handled(err, st, <<>>, NoAmount, NoAmount, stage)

\* Pool::from_account / Pool::from_account_mut: the length check
PoolBorrow(st, account) ==
    IF st[account].len < PoolLEN THEN ProgramError("InvalidAccountData") ELSE Ok

\* the derivation checks without the one on vault_b
init_check_seeds_no_vault_b(pool, vault_a, vault_b, mint_a, mint_b) ==
    IF pool # find_program_address(<<mint_a, mint_b>>, ID).key
    THEN ProgramError("InvalidSeeds")
    ELSE IF vault_a # find_program_address(<<pool, mint_a>>, ID).key
    THEN ProgramError("InvalidSeeds")
    ELSE Ok

\* process_init, the three derivation checks
init_check_seeds(pool, vault_a, vault_b, mint_a, mint_b) ==
    IF pool # find_program_address(<<mint_a, mint_b>>, ID).key
    THEN ProgramError("InvalidSeeds")
    ELSE IF vault_a # find_program_address(<<pool, mint_a>>, ID).key
    THEN ProgramError("InvalidSeeds")
    ELSE IF vault_b # find_program_address(<<pool, mint_b>>, ID).key
    THEN ProgramError("InvalidSeeds")
    ELSE Ok

\* "create pool account" skipped when the account is already the program's
init_create_pool_if_needed(st, payer, pool, mint_a, mint_b) ==
    IF st[pool].owner = ID
    THEN Called(Ok, st, Cpi("create", pool, ID, payer, Zeros(8), Ok))
    ELSE create_account_with_minimum_balance_signed(
            st, pool, PoolLEN, ID, payer,
            {Seeds(mint_a, mint_b, find_program_address(<<mint_a, mint_b>>, ID).bump)})

\* "create pool account" with the result of the call dropped
init_create_pool_unchecked(st, payer, pool, mint_a, mint_b) ==
    LET c == create_account_with_minimum_balance_signed(
                 st, pool, PoolLEN, ID, payer,
                 {Seeds(mint_a, mint_b, find_program_address(<<mint_a, mint_b>>, ID).bump)})
    IN  Called(Ok, c.accounts, c.log)

\* process_init, "create pool account"
init_create_pool(st, payer, pool, mint_a, mint_b) ==
    create_account_with_minimum_balance_signed(
        st, pool, PoolLEN, ID, payer,
        {Seeds(mint_a, mint_b, find_program_address(<<mint_a, mint_b>>, ID).bump)})

\* the record written with the two vault identities exchanged
init_write_pool_vaults_exchanged(st, pool, usdc_atoms_per_sol, vault_a, vault_b, mint_a, mint_b) ==
    [st EXCEPT ![pool].pool =
        [usdc_atoms_per_sol |-> U128_from(usdc_atoms_per_sol),
         vault_a |-> vault_b,
         vault_b |-> vault_a,
         pool_seeds |-> [mint_a |-> mint_a, mint_b |-> mint_b,
                         bump |-> find_program_address(<<mint_a, mint_b>>, ID).bump]]]

\* process_init, "init pool account": the record written through the
\* exclusive borrow
init_write_pool(st, pool, usdc_atoms_per_sol, vault_a, vault_b, mint_a, mint_b) ==
    [st EXCEPT ![pool].pool =
        [usdc_atoms_per_sol |-> U128_from(usdc_atoms_per_sol),
         vault_a |-> vault_a,
         vault_b |-> vault_b,
         pool_seeds |-> [mint_a |-> mint_a, mint_b |-> mint_b,
                         bump |-> find_program_address(<<mint_a, mint_b>>, ID).bump]]]

\* the same with the payer named as custody owner of the vault
init_create_vault_owned_by_payer(st, cpis, payer, pool, vault, mint) ==
    LET c == create_account_with_minimum_balance_signed(
                 st, vault, TokenAccountLEN, TOKEN_PROGRAM, payer,
                 {Seeds(pool, mint, find_program_address(<<pool, mint>>, ID).bump)})
        i == InitializeAccount3(c.accounts, vault, mint, payer)
        b == IF invoke_check(InitBorrows(pool), CreateAccountMetas(payer, vault)) # Ok
             THEN invoke_check(InitBorrows(pool), CreateAccountMetas(payer, vault))
             ELSE invoke_check(InitBorrows(pool), InitializeAccount3Metas(vault, mint))
    IN  IF b # Ok THEN Handled(b, st, cpis, NoAmount, NoAmount, "invoke")
        ELSE IF c.err # Ok
        THEN Handled(c.err, c.accounts, Append(cpis, c.log), NoAmount, NoAmount, "create_vault")
        ELSE Handled(i.err, i.accounts, cpis \o <<c.log, i.log>>, NoAmount, NoAmount,
                     "init_vault")

\* process_init, "create vault" and "init vault (pool owns vault)", for one
\* vault; the calls made are appended to cpis
init_create_vault(st, cpis, payer, pool, vault, mint) ==
    LET c == create_account_with_minimum_balance_signed(
                 st, vault, TokenAccountLEN, TOKEN_PROGRAM, payer,
                 {Seeds(pool, mint, find_program_address(<<pool, mint>>, ID).bump)})
        i == InitializeAccount3(c.accounts, vault, mint, pool)
        b == IF invoke_check(InitBorrows(pool), CreateAccountMetas(payer, vault)) # Ok
             THEN invoke_check(InitBorrows(pool), CreateAccountMetas(payer, vault))
             ELSE invoke_check(InitBorrows(pool), InitializeAccount3Metas(vault, mint))
    IN  IF b # Ok THEN Handled(b, st, cpis, NoAmount, NoAmount, "invoke")
        ELSE IF c.err # Ok
        THEN Handled(c.err, c.accounts, Append(cpis, c.log), NoAmount, NoAmount, "create_vault")
        ELSE Handled(i.err, i.accounts, cpis \o <<c.log, i.log>>, NoAmount, NoAmount,
                     "init_vault")

process_init(st, accounts, data) ==
    IF Len(accounts) # 8 THEN Rejected(ProgramError("NotEnoughAccountKeys"), st, "accounts")
    ELSE IF Len(data) < 8 THEN Rejected(ProgramError("InvalidInstructionData"), st, "data")
    ELSE
    LET payer   == accounts[1]
        pool    == accounts[2]
        vault_a == accounts[3]
        vault_b == accounts[4]
        mint_a  == accounts[5]
        mint_b  == accounts[6]
        usdc_atoms_per_sol == SubSeq(data, 1, 8)
        seeds == init_check_seeds(pool, vault_a, vault_b, mint_a, mint_b)
        c1 == init_create_pool(st, payer, pool, mint_a, mint_b)
        b1 == PoolBorrow(c1.accounts, pool)
        s1 == init_write_pool(c1.accounts, pool, usdc_atoms_per_sol, vault_a, vault_b,
                              mint_a, mint_b)
        va == init_create_vault(s1, <<c1.log>>, payer, pool, vault_a, mint_a)
        vb == init_create_vault(va.accounts, va.cpis, payer, pool, vault_b, mint_b)
    IN  IF seeds # Ok THEN Rejected(seeds, st, "seeds")
        ELSE IF c1.err # Ok
        THEN Handled(c1.err, c1.accounts, <<c1.log>>, NoAmount, NoAmount, "create_pool")
        ELSE IF b1 # Ok
        THEN Handled(b1, c1.accounts, <<c1.log>>, NoAmount, NoAmount, "borrow")
        ELSE IF va.err # Ok THEN va
        ELSE vb

TRANSFER_DISC == 3

Validated(err, amount_in, stage) == [err |-> err, amount_in |-> amount_in, stage |-> stage]

\* oob is what the unchecked read of account 1 yields when prev_ix names
\* fewer than two accounts
validate_prev_ix(prev_ix, pool_vault_in, oob) ==
    IF prev_ix.program_id # TOKEN_PROGRAM
    THEN Validated(ErrorFrom("PrevIxNotTokenProgram"), NoAmount, "prev_program")
    ELSE IF ~(Len(prev_ix.data) >= 9)
    THEN Validated(ErrorFrom("UnexpectedTokenProgramDataLen"), NoAmount, "prev_len")
    ELSE IF prev_ix.data[1] # TRANSFER_DISC
    THEN Validated(ErrorFrom("UnexpectedTokenProgramIx"), NoAmount, "prev_disc")
    ELSE LET dest == IF Len(prev_ix.accounts) >= 2 THEN prev_ix.accounts[2] ELSE oob
         IN  IF dest # pool_vault_in
             THEN Validated(ErrorFrom("UnexpectedTransferDest"), NoAmount, "prev_dest")
             ELSE Validated(Ok, SubSeq(prev_ix.data, 2, 9), "validated")

\* U128 multiplication that keeps the low 128 bits of the product
wrapping_mul(x, y) ==
    [some |-> TRUE, v |-> SubSeq(BigMul(x, y) \o Zeros(16), 1, 16)]

\* U128::checked_mul: None when the product needs more than 128 bits
checked_mul(x, y) ==
    LET p == BigMul(x, y)
    IN  IF Fits(p, 16) THEN [some |-> TRUE, v |-> Pad(p, 16)]
        ELSE [some |-> FALSE, v |-> Zeros(16)]

\* the conversion with the quotient scaled by 10^6 instead of 10^9
amount_out_of_1e6(amount_in, usdc_atoms_per_sol) ==
    LET m == checked_mul(U128_from(amount_in), usdc_atoms_per_sol)
        q == BigDivSmall(BigDivSmall(m.v, 1000), 1000)
    IN  IF m.some /\ Fits(q, 8)
        THEN [ok |-> TRUE, v |-> SubSeq(q \o Zeros(8), 1, 8)]
        ELSE [ok |-> FALSE, v |-> NoAmount]

\* process_swap, "Calculate amount out"
amount_out_of(amount_in, usdc_atoms_per_sol) ==
    LET m == checked_mul(U128_from(amount_in), usdc_atoms_per_sol)
        q == BigDiv1e9(m.v)
    IN  IF m.some /\ Fits(q, 8)
        THEN [ok |-> TRUE, v |-> SubSeq(q, 1, 8)]
        ELSE [ok |-> FALSE, v |-> NoAmount]

\* the vault checks without the one on vault_b
swap_check_vaults_a_only(pool_data, pool_vault_a, pool_vault_b) ==
    IF pool_vault_a # pool_data.vault_a THEN ProgramError("InvalidSeeds") ELSE Ok

\* process_swap, "verify vaults match stored keys"
swap_check_vaults(pool_data, pool_vault_a, pool_vault_b) ==
    IF pool_vault_a # pool_data.vault_a THEN ProgramError("InvalidSeeds")
    ELSE IF pool_vault_b # pool_data.vault_b THEN ProgramError("InvalidSeeds")
    ELSE Ok

\* an instruction list as the register serialises it, with the index of the
\* instruction being executed
Register(instructions, current) == [instructions |-> instructions, current |-> current]

\* the deposit amount written in OTHER_DATA
OtherDataAmount == U64(1000000000)

\* the bytes OTHER_PROGRAM has written in OTHER_DATA read as a register: a
\* transfer into VAULT_A followed by an instruction of this program, the
\* second one current
OtherDataRegister ==
    Register(<<Instruction(TOKEN_PROGRAM, <<USER_ATA_A, VAULT_A, USER>>,
                           <<TRANSFER_DISC>> \o OtherDataAmount),
               Instruction(ID, <<>>, <<1>>)>>, 1)

\* the bytes in SHORT_DATA read as a register: the same, the transfer naming
\* no account at all
ShortDataRegister ==
    Register(<<Instruction(TOKEN_PROGRAM, <<>>, <<TRANSFER_DISC>> \o OtherDataAmount),
               Instruction(ID, <<>>, <<1>>)>>, 1)

\* Instructions::new_unchecked(ix_sysvar.try_borrow_data()?): the data of the
\* supplied account, whichever account it is
Instructions_new_unchecked(ix_sysvar, register) ==
    IF ix_sysvar = INSTRUCTIONS_ID THEN register
    ELSE IF ix_sysvar = SHORT_DATA THEN ShortDataRegister
    ELSE OtherDataRegister

\* the chain checks without the test of cur_idx against 0: prev_idx wraps
\* around and load_instruction_at rejects it
swap_check_chain_unguarded(instruction_sysvar, pool_vault_a, oob) ==
    LET cur_idx  == instruction_sysvar.current
        prev_idx == cur_idx - 1
    IN  IF instruction_sysvar.instructions[cur_idx + 1].program_id # ID
        THEN Validated(ProgramError("IncorrectProgramId"), NoAmount, "cur_program")
        ELSE IF prev_idx < 0 \/ prev_idx >= Len(instruction_sysvar.instructions)
        THEN Validated(ProgramError("InvalidInstructionData"), NoAmount, "load_prev")
        ELSE validate_prev_ix(instruction_sysvar.instructions[prev_idx + 1], pool_vault_a, oob)

\* process_swap, from reading the register to validate_prev_ix
\* (sequences are 1-based: instruction n is element n + 1)
swap_check_chain(instruction_sysvar, pool_vault_a, oob) ==
    LET cur_idx  == instruction_sysvar.current
        prev_idx == cur_idx - 1
    IN  IF cur_idx = 0
        THEN Validated(ErrorFrom("PrevIxNotTokenProgram"), NoAmount, "cur_idx")
        ELSE IF instruction_sysvar.instructions[cur_idx + 1].program_id # ID
        THEN Validated(ProgramError("IncorrectProgramId"), NoAmount, "cur_program")
        ELSE IF prev_idx >= Len(instruction_sysvar.instructions)
        THEN Validated(ProgramError("InvalidInstructionData"), NoAmount, "load_prev")
        ELSE validate_prev_ix(instruction_sysvar.instructions[prev_idx + 1], pool_vault_a, oob)

\* the transfer out with the result of the call dropped
swap_transfer_unchecked(st, pool, pool_data, user_out, pool_vault_b, amount_out) ==
    LET t == TokenTransfer(st, pool_vault_b, user_out, pool, amount_out,
                           CpiSigners({Seeds(pool_data.pool_seeds.mint_a,
                                             pool_data.pool_seeds.mint_b,
                                             pool_data.pool_seeds.bump)}))
    IN  Called(Ok, t.accounts, t.log)

\* process_swap, "Transfer out (pool signs for vault_b)"
swap_transfer(st, pool, pool_data, user_out, pool_vault_b, amount_out) ==
    TokenTransfer(st, pool_vault_b, user_out, pool, amount_out,
                  CpiSigners({Seeds(pool_data.pool_seeds.mint_a, pool_data.pool_seeds.mint_b,
                                    pool_data.pool_seeds.bump)}))

process_swap(st, accounts, register, oob) ==
    IF Len(accounts) # 7 THEN Rejected(ProgramError("NotEnoughAccountKeys"), st, "accounts")
    ELSE
    LET pool         == accounts[2]
        user_out     == accounts[3]
        pool_vault_a == accounts[4]
        pool_vault_b == accounts[5]
        ix_sysvar    == accounts[6]
        pool_data    == st[pool].pool
        vaults == swap_check_vaults(pool_data, pool_vault_a, pool_vault_b)
        v      == swap_check_chain(Instructions_new_unchecked(ix_sysvar, register),
                                   pool_vault_a, oob)
        out    == amount_out_of(v.amount_in, pool_data.usdc_atoms_per_sol)
        b      == invoke_check(SwapBorrows(pool, ix_sysvar),
                               TransferMetas(pool_vault_b, user_out, pool))
        t      == swap_transfer(st, pool, pool_data, user_out, pool_vault_b, out.v)
    IN  IF PoolBorrow(st, pool) # Ok THEN Rejected(PoolBorrow(st, pool), st, "borrow")
        ELSE IF vaults # Ok THEN Rejected(vaults, st, "vaults")
        ELSE IF v.err # Ok THEN Rejected(v.err, st, v.stage)
        ELSE IF ~out.ok
        THEN Handled(ErrorFrom("LargeOrder"), st, <<>>, v.amount_in, NoAmount, "convert")
        ELSE IF b # Ok THEN Handled(b, st, <<>>, v.amount_in, out.v, "invoke")
        ELSE Handled(t.err, t.accounts, <<t.log>>, v.amount_in, out.v, "transfer")

\* the entry point with every opcode other than 0 handled as Swap
process_no_default(st, accounts, data, register, oob) ==
    IF data = <<>> THEN Rejected(ProgramError("InvalidInstructionData"), st, "dispatch")
    ELSE IF data[1] = 0 THEN process_init(st, accounts, Tail(data))
    ELSE process_swap(st, accounts, register, oob)

\* the entry point
process(st, accounts, data, register, oob) ==
    IF data = <<>> THEN Rejected(ProgramError("InvalidInstructionData"), st, "dispatch")
    ELSE IF data[1] = 0 THEN process_init(st, accounts, Tail(data))
    ELSE IF data[1] = 1 THEN process_swap(st, accounts, register, oob)
    ELSE Rejected(ProgramError("InvalidInstructionData"), st, "dispatch")

-----
(* The host: transactions are executed one instruction at a time on a      *)
(* working copy of the accounts, which is committed when every instruction *)
(* has succeeded and discarded when one fails.                             *)

VARIABLES
    accounts,   \* the committed accounts
    work,       \* the working copy of the transaction in progress
    tx,         \* the instructions of the transaction executed so far
    phase,      \* "running", or "failed" once an instruction has failed
    last,       \* what the last instruction executed returned
    commits     \* the number of transactions committed

vars == <<accounts, work, tx, phase, last, commits>>

NoLast ==
    [op |-> "none", err |-> Ok, cpis |-> <<>>, amount_in |-> NoAmount,
     amount_out |-> NoAmount, stage |-> "none"]

Init ==
    /\ accounts = InitialAccounts
    /\ work = InitialAccounts
    /\ tx = <<>>
    /\ phase = "running"
    /\ last = NoLast
    /\ commits = 0

\* ---- the requests the model submits ----

DepositAmounts == {U64(1500000000)}

Rates == {U64(3), U64(1000000000)}

\* the rate the pool of each mint pair is initialised at
RateOf(mp) == IF mp = <<MINT_B, MINT_A>> THEN U64_MAX ELSE U64(1000000000)

\* the quote vault is funded with 2^64 - 1 atoms, the most an account holds:
\* minting them again overflows
FundAmounts == {U64_MAX}

\* the 8 accounts of an Initialize for a mint pair, right or with one
\* identity replaced
InitAccounts(mp, variant) ==
    LET pool == IF variant = "pool" THEN OTHER_DATA ELSE PoolOf(mp)
        va   == IF variant = "vault_a" THEN USER_ATA_A ELSE VaultOf(pool, mp[1])
        vb   == IF variant = "vault_b" THEN USER_ATA_B ELSE VaultOf(pool, mp[2])
    IN  <<USER, pool, va, vb, mp[1], mp[2], SYSTEM_PROGRAM, TOKEN_PROGRAM>>

InitIxs ==
    {Instruction(ID, InitAccounts(<<MINT_A, MINT_B>>, "right"), <<0>> \o r) : r \in Rates}
    \cup {Instruction(ID, InitAccounts(<<MINT_A, MINT_B>>, v), <<0>> \o U64(1000000000)) :
            v \in {"pool", "vault_a", "vault_b"}}
    \cup {Instruction(ID, InitAccounts(mp, "right"), <<0>> \o RateOf(mp)) : mp \in MintPairs}
    \cup {Instruction(ID, InitAccounts(<<MINT_A, MINT_B>>, "right"), <<0, 1, 2, 3, 4, 5, 6, 7>>),
          Instruction(ID, SubSeq(InitAccounts(<<MINT_A, MINT_B>>, "right"), 1, 7),
                      <<0>> \o U64(1000000000)),
          Instruction(ID, SubSeq(InitAccounts(<<MINT_A, MINT_B>>, "right"), 1, 7),
                      <<0, 1, 2, 3, 4, 5, 6, 7>>),
          Instruction(ID, <<POOL>> \o Tail(InitAccounts(<<MINT_A, MINT_B>>, "right")),
                      <<0>> \o U64(1000000000))}

SwapAccounts(pool, user_out, va, vb, sysvar) ==
    <<USER, pool, user_out, va, vb, sysvar, TOKEN_PROGRAM>>

SwapIxs ==
    {Instruction(ID, SwapAccounts(POOL, USER_ATA_B, VAULT_A, VAULT_B, sysvar), <<1>>) :
        sysvar \in {INSTRUCTIONS_ID, OTHER_DATA}}
    \cup {Instruction(ID, SwapAccounts(POOL, VAULT_B, VAULT_A, VAULT_B, INSTRUCTIONS_ID), <<1>>),
          Instruction(ID, SwapAccounts(POOL, POOL, VAULT_A, VAULT_B, INSTRUCTIONS_ID), <<1>>),
          Instruction(ID, SwapAccounts(FAKE_POOL, USER_ATA_B, VAULT_A, VAULT_B, INSTRUCTIONS_ID), <<1>>),
          Instruction(ID, SwapAccounts(POOL, USER_ATA_B, VAULT_A, VAULT_B, SHORT_DATA), <<1>>),
          Instruction(ID, SwapAccounts(POOL, OTHER_DATA, VAULT_A, VAULT_B, OTHER_DATA), <<1>>)}
    \cup {Instruction(ID, SwapAccounts(NOT_MINT, USER_ATA_B, VAULT_A, VAULT_B, INSTRUCTIONS_ID), <<1>>),
          Instruction(ID, SwapAccounts(OTHER_DATA, USER_ATA_B, VAULT_A, VAULT_B, INSTRUCTIONS_ID), <<1>>),
          Instruction(ID, SwapAccounts(POOL, USER_ATA_B, USER_ATA_A, VAULT_B, INSTRUCTIONS_ID), <<1>>),
          Instruction(ID, SwapAccounts(POOL, USER_ATA_B, VAULT_A, USER_ATA_B, INSTRUCTIONS_ID), <<1>>),
          Instruction(ID, SubSeq(SwapAccounts(POOL, USER_ATA_B, VAULT_A, VAULT_B, INSTRUCTIONS_ID), 1, 6), <<1>>)}

TransferIx(from, to, authority, amount) ==
    Instruction(TOKEN_PROGRAM, <<from, to, authority>>, <<TRANSFER_DISC>> \o amount)

MintToIx(mint, to, authority, amount) ==
    Instruction(TOKEN_PROGRAM, <<mint, to, authority>>, <<7>> \o amount)

RevokeIx(source, owner) == Instruction(TOKEN_PROGRAM, <<source, owner>>, <<5>>)

TokenIxs ==
    {TransferIx(USER_ATA_A, VAULT_A, USER, a) : a \in DepositAmounts}
    \cup {TransferIx(USER_ATA_A, USER_ATA_A, USER, U64(1000000000))}
    \cup {TransferIx(VAULT_B, USER_ATA_B, auth, U64(1)) : auth \in {USER, POOL}}
    \cup {MintToIx(MINT_B, VAULT_B, USER, a) : a \in FundAmounts}
    \cup {RevokeIx(USER_ATA_A, USER)}

\* requests without an opcode or with an opcode that is neither 0 nor 1, on
\* no account, on the accounts of an Initialize and on those of a Swap
MalformedIxs ==
    {Instruction(ID, a, d) :
        a \in {<<>>, InitAccounts(<<MINT_A, MINT_B>>, "right"),
               SwapAccounts(POOL, USER_ATA_B, VAULT_A, VAULT_B, INSTRUCTIONS_ID)},
        d \in {<<>>, <<2>>}}

OtherIx == Instruction(OTHER_PROGRAM, <<OTHER_DATA>>, <<>>)

\* top-level instructions of OTHER_PROGRAM that pass their accounts and data
\* on to this program in a nested invocation
NestedIxs ==
    {Instruction(OTHER_PROGRAM,
                 SwapAccounts(POOL, USER_ATA_B, VAULT_A, VAULT_B, sysvar), <<1>>) :
        sysvar \in {INSTRUCTIONS_ID, OTHER_DATA}}

\* what the unchecked account read may yield out of bounds
OobKeys == {SYSTEM_PROGRAM, VAULT_A}

\* ---- the actions ----

CanExecute ==
    /\ phase = "running"
    /\ Len(tx) < MaxTxLen

\* the register while instruction ix runs after the instructions of tx
HostRegister(ix) == Register(Append(tx, ix), Len(tx))

Outcome(op, r) ==
    [op |-> op, err |-> r.err, cpis |-> r.cpis, amount_in |-> r.amount_in,
     amount_out |-> r.amount_out, stage |-> r.stage]

\* the host takes the result r of instruction ix: the accounts as the
\* program left them, and a failure fails the transaction
HostResult(op, ix, r) ==
    /\ work' = r.accounts
    /\ tx' = Append(tx, ix)
    /\ phase' = IF r.err = Ok THEN "running" ELSE "failed"
    /\ last' = Outcome(op, r)
    /\ UNCHANGED <<accounts, commits>>

\* the host runs an instruction of this program
RunProgram(op, ix, oob) ==
    HostResult(op, ix, process(work, ix.accounts, ix.data, HostRegister(ix), oob))

Initialize ==
    /\ CanExecute
    /\ \E ix \in InitIxs : RunProgram("init", ix, SYSTEM_PROGRAM)

Swap ==
    /\ CanExecute
    /\ \E ix \in SwapIxs : \E oob \in OobKeys : RunProgram("swap", ix, oob)

\* the host runs a top-level instruction of OTHER_PROGRAM, which invokes this
\* program: the register holds the top-level instruction as the current one,
\* and a failure of the nested call fails the transaction
NestedSwap ==
    /\ CanExecute
    /\ \E ix \in NestedIxs : RunProgram("nested_swap", ix, SYSTEM_PROGRAM)

Malformed ==
    /\ CanExecute
    /\ \E ix \in MalformedIxs : RunProgram("malformed", ix, SYSTEM_PROGRAM)

\* the host runs a top-level instruction of the token service
TokenResult(ix, r) ==
    /\ work' = r.accounts
    /\ tx' = Append(tx, ix)
    /\ phase' = IF r.err = Ok THEN "running" ELSE "failed"
    /\ last' = [NoLast EXCEPT !.op = "token", !.err = r.err]
    /\ UNCHANGED <<accounts, commits>>

RunToken(ix) ==
    TokenResult(ix, process_token(work, ix.accounts, ix.data, TxSigners))

TokenInstruction ==
    /\ CanExecute
    /\ \E ix \in TokenIxs : RunToken(ix)

\* a top-level instruction of another program, which touches none of the
\* accounts of the model
OtherInstruction ==
    /\ CanExecute
    /\ tx' = Append(tx, OtherIx)
    /\ last' = [NoLast EXCEPT !.op = "other"]
    /\ UNCHANGED <<accounts, work, phase, commits>>

\* every instruction succeeded: the working copy becomes the accounts
Commit ==
    /\ phase = "running"
    /\ tx # <<>>
    /\ commits < MaxCommits
    /\ accounts' = work
    /\ tx' = <<>>
    /\ last' = NoLast
    /\ commits' = commits + 1
    /\ UNCHANGED <<work, phase>>

\* an instruction failed: the working copy is discarded
Abort ==
    /\ phase = "failed"
    /\ work' = accounts
    /\ tx' = <<>>
    /\ phase' = "running"
    /\ last' = NoLast
    /\ UNCHANGED <<accounts, commits>>

Next ==
    \/ Initialize
    \/ Swap
    \/ NestedSwap
    \/ Malformed
    \/ TokenInstruction
    \/ OtherInstruction
    \/ Commit
    \/ Abort

Spec == Init /\ [][Next]_vars

-----------------------------------------------------------------------------
(* The conversion over the whole range of amounts and rates: deposits and  *)
(* Swaps against a pool record holding any 128-bit rate.  A rate below     *)
(* 2^64 is the one Initialize stored; a wider one is in a record at        *)
(* OTHER_DATA, which process_swap reads like any other.                    *)

TwoTo64 == Zeros(8) \o <<1>>

TwoTo64Times1e9 == BigMul(TwoTo64, U64(1000000000))

ConvertAmounts ==
    {U64(0), U64(1), U64(2), U64(999999999), U64(1500000000), U64_MAX}

ConvertRates ==
    {Pad(U64(0), 16), Pad(U64(1), 16), Pad(U64(3), 16), Pad(U64(1000000000), 16),
     Pad(U64(1000000001), 16), Pad(U64_MAX, 16), Pad(TwoTo64, 16),
     Pad(BigSub(TwoTo64Times1e9, <<1>>), 16), Pad(TwoTo64Times1e9, 16),
     Zeros(15) \o <<128>>, U128_MAX}

ConvertAccounts(rate) ==
    IF Fits(Trim(rate), 8)
    THEN [process_init(InitialAccounts, InitAccounts(<<MINT_A, MINT_B>>, "right"),
                       SubSeq(rate, 1, 8)).accounts
            EXCEPT ![USER_ATA_A].tok.amount = U64_MAX,
                   ![VAULT_B].tok.amount = U64_MAX]
    ELSE [InitialAccounts
            EXCEPT ![USER_ATA_A].tok.amount = U64_MAX,
                   ![OTHER_DATA] =
                       [@ EXCEPT !.len = PoolLEN,
                                 !.pool = [usdc_atoms_per_sol |-> rate,
                                           vault_a |-> USER_ATA_A,
                                           vault_b |-> USER_ATA_B,
                                           pool_seeds |-> [mint_a |-> MINT_A,
                                                           mint_b |-> MINT_B,
                                                           bump |-> 255]]]]

InitConvert ==
    /\ \E rate \in ConvertRates : accounts = ConvertAccounts(rate)
    /\ work = accounts
    /\ tx = <<>>
    /\ phase = "running"
    /\ last = NoLast
    /\ commits = 0

\* the account holding the pool record
ConvertPool == IF work[POOL].len >= PoolLEN THEN POOL ELSE OTHER_DATA

ConvertDeposit ==
    /\ CanExecute
    /\ \E a \in ConvertAmounts :
        RunToken(TransferIx(USER_ATA_A, work[ConvertPool].pool.vault_a, USER, a))

ConvertSwap ==
    /\ CanExecute
    /\ RunProgram("swap",
                  Instruction(ID, SwapAccounts(ConvertPool, USER_ATA_B,
                                               work[ConvertPool].pool.vault_a,
                                               work[ConvertPool].pool.vault_b,
                                               INSTRUCTIONS_ID), <<1>>),
                  SYSTEM_PROGRAM)

NextConvert ==
    \/ ConvertDeposit
    \/ ConvertSwap
    \/ Abort

SpecConvert == InitConvert /\ [][NextConvert]_vars

-----
(* Properties.                                                             *)

\* the instruction executed last, its position in the transaction (from 0),
\* and the instruction before it
LastIx == tx[Len(tx)]

LastPos == Len(tx) - 1

PrevIx == tx[Len(tx) - 1]

\* the last instruction was a Swap / a Swap that issued its transfer and
\* returned Ok
SwapRan == last.op = "swap"

SwapPaid == SwapRan /\ last.err = Ok /\ last.stage = "transfer"

\* the pool record the last Swap read
SwapPool == work[LastIx.accounts[2]].pool

\* C1: a Swap that succeeds is at a position i > 0 of its transaction, and
\* instruction i - 1 of that transaction targets the token service, has a
\* payload of at least 9 bytes starting with 3 and names the stored base vault
\* as its account 1; amount_in is bytes 1..8 of that payload.
C1_SwapFollowsDeposit ==
    SwapPaid =>
        /\ LastPos > 0
        /\ PrevIx.program_id = TOKEN_PROGRAM
        /\ Len(PrevIx.data) >= 9
        /\ PrevIx.data[1] = 3
        /\ Len(PrevIx.accounts) >= 2
        /\ PrevIx.accounts[2] = SwapPool.vault_a
        /\ last.amount_in = SubSeq(PrevIx.data, 2, 9)

\* the last Swap passed its checks on the accounts and on the instruction
\* chain and went on to the conversion
SwapConverted == SwapRan /\ last.stage \in {"convert", "transfer"}

\* the deposited amount times the stored rate, exactly
SwapProduct == BigMul(SubSeq(PrevIx.data, 2, 9), SwapPool.usdc_atoms_per_sol)

\* C2: a Swap that reaches the conversion after a deposit of a at stored rate
\* R issues one transfer of floor(a * R / 10^9) when that quotient is at most
\* 2^64 - 1, and otherwise fails with LargeOrder without issuing a transfer.
C2_Conversion ==
    SwapConverted =>
        IF BigLess(SwapProduct, TwoTo64Times1e9)
        THEN /\ last.stage = "transfer"
             /\ Len(last.cpis) = 1
             /\ last.cpis[1].op = "transfer"
             /\ last.cpis[1].amount = last.amount_out
             /\ BigLeq(BigMul(last.amount_out, U64(1000000000)), SwapProduct)
             /\ BigLess(SwapProduct,
                        BigMul(BigAdd(last.amount_out, <<1>>), U64(1000000000)))
        ELSE /\ last.stage = "convert"
             /\ last.err = ErrorFrom("LargeOrder")
             /\ last.cpis = <<>>

\* a Swap paid out 2^64 - 1 quote atoms, the largest quotient that fits
C2_Witness ==
    /\ SwapPaid
    /\ last.amount_out = U64_MAX
    /\ work[USER_ATA_B].tok.amount = U64_MAX

\* a Swap failed with LargeOrder because the product needs more than 128 bits
C2_WitnessLarge ==
    /\ SwapConverted
    /\ last.err = ErrorFrom("LargeOrder")
    /\ ~Fits(SwapProduct, 16)

\* the last Swap named 7 accounts, a pool account long enough to be read as
\* a record, and the two vaults that record stores
SwapChecksPassed ==
    /\ SwapRan
    /\ Len(LastIx.accounts) = 7
    /\ PoolBorrow(work, LastIx.accounts[2]) = Ok
    /\ swap_check_vaults(SwapPool, LastIx.accounts[4], LastIx.accounts[5]) = Ok

\* the last Swap named the host's instruction register
GenuineRegister == LastIx.accounts[6] = INSTRUCTIONS_ID

Bal(st, k) == st[k].tok.amount

\* the transaction so far is a deposit into the base vault of an initialised
\* pool followed by a Swap that paid; accounts is the state before it
SwapAfterDeposit ==
    /\ SwapPaid
    /\ Len(tx) = 2
    /\ tx[1].program_id = TOKEN_PROGRAM
    /\ tx[1].data[1] = TRANSFER_DISC
    /\ LastIx.accounts[2] = POOL
    /\ tx[1].accounts[2] = SwapPool.vault_a
    /\ accounts[POOL].owner = ID

\* x = y + z on 64 bits
IsSum(x, y, z) == Pad(BigAdd(y, z), 8) = x

\* out = floor(a * R / 10^9)
IsQuotient(out, a, R) ==
    /\ BigLeq(BigMul(out, U64(1000000000)), BigMul(a, R))
    /\ BigLess(BigMul(a, R), BigMul(BigAdd(out, <<1>>), U64(1000000000)))

FirstPositionError ==
    swap_check_chain(Register(<<Instruction(ID, <<>>, <<1>>)>>, 0), VAULT_A,
                     SYSTEM_PROGRAM).err

C5_FirstFailingCheck ==
    /\ Cardinality({ErrorFrom("PrevIxNotTokenProgram"),
                    ErrorFrom("UnexpectedTokenProgramDataLen"),
                    ErrorFrom("UnexpectedTokenProgramIx"),
                    ErrorFrom("UnexpectedTransferDest")}) = 4
    /\ (SwapChecksPassed /\ LastPos > 0) =>
        IF PrevIx.program_id # TOKEN_PROGRAM
        THEN last.err = ErrorFrom("PrevIxNotTokenProgram")
        ELSE IF Len(PrevIx.data) < 9
        THEN last.err = ErrorFrom("UnexpectedTokenProgramDataLen")
        ELSE IF PrevIx.data[1] # 3
        THEN last.err = ErrorFrom("UnexpectedTokenProgramIx")
        ELSE IF Len(PrevIx.accounts) < 2 \/ PrevIx.accounts[2] # SwapPool.vault_a
        THEN last.err = ErrorFrom("UnexpectedTransferDest")
        ELSE TRUE

\* the step runs one more instruction, of the given kind
Ran(op) == last'.op = op /\ Len(tx') = Len(tx) + 1

\* the instruction the step runs
NewIx == tx'[Len(tx')]

\* C6: an account holding a pool record keeps every byte of it: in the
\* committed accounts for ever, and in the working copy of a transaction
\* through every Initialize and Swap, failing ones included.
C6_PoolRecordImmutable ==
    [][\A k \in AccountKeys :
          /\ accounts[k].owner = ID =>
                /\ accounts'[k] = accounts[k]
                /\ work[k] = accounts[k]
                /\ work'[k] = accounts[k]
          /\ (phase = "running" /\ work[k].owner = ID) => work'[k] = work[k]]_vars

\* after a pool was committed, a transaction deposited into its base vault
\* and then ran an Initialize for the same pool at another rate
C6_Witness ==
    /\ accounts[POOL].owner = ID
    /\ Len(tx) = 2
    /\ tx[1] = TransferIx(USER_ATA_A, VAULT_A, USER, U64(1500000000))
    /\ last.op = "init"
    /\ LastIx.accounts[2] = POOL
    /\ Len(LastIx.data) = 9
    /\ SubSeq(LastIx.data, 2, 9) # SubSeq(accounts[POOL].pool.usdc_atoms_per_sol, 1, 8)
    /\ work[POOL] = accounts[POOL]

\* C7: an Initialize for a mint pair whose pool account exists fails,
\* whatever its rate, and leaves every account as it was.
C7_SecondInitializeFails ==
    [][(/\ Ran("init")
        /\ Len(NewIx.accounts) >= 6
        /\ PoolOf(<<NewIx.accounts[5], NewIx.accounts[6]>>) \in AccountKeys
        /\ work[PoolOf(<<NewIx.accounts[5], NewIx.accounts[6]>>)].owner = ID)
       => /\ last'.err # Ok
          /\ phase' = "failed"
          /\ work' = work
          /\ \A i \in 1..Len(last'.cpis) : last'.cpis[i].res # Ok]_vars

\* an Initialize at rate 3 for the pool initialised at another rate was
\* rejected by the account-creation service
C7_Witness ==
    /\ last.op = "init"
    /\ last.stage = "create_pool"
    /\ last.err = SystemAccountAlreadyInUse
    /\ LastIx.accounts[2] = POOL
    /\ SubSeq(LastIx.data, 2, 9) = U64(3)
    /\ work[POOL].pool.usdc_atoms_per_sol = U128_from(U64(1000000000))

\* C8: a Swap naming a base or quote vault other than the stored one is
\* rejected with InvalidSeeds before the register is read and without any
\* transfer; every transfer a Swap issues leaves the stored quote vault.
C8_VaultSubstitution ==
    /\ (/\ SwapRan
        /\ Len(LastIx.accounts) = 7
        /\ PoolBorrow(work, LastIx.accounts[2]) = Ok
        /\ \/ LastIx.accounts[4] # SwapPool.vault_a
           \/ LastIx.accounts[5] # SwapPool.vault_b)
       => /\ last.err = ProgramError("InvalidSeeds")
          /\ last.stage = "vaults"
          /\ last.cpis = <<>>
    /\ SwapRan =>
          \A i \in 1..Len(last.cpis) :
              /\ last.cpis[i].op = "transfer"
              /\ last.cpis[i].account = SwapPool.vault_b

\* a Swap naming another quote vault ran after a deposit into the base vault
\* of an initialised pool
C8_Witness ==
    /\ SwapRan
    /\ LastIx.accounts[2] = POOL
    /\ work[POOL].owner = ID
    /\ LastIx.accounts[5] = USER_ATA_B
    /\ LastPos > 0
    /\ PrevIx = TransferIx(USER_ATA_A, VAULT_A, USER, U64(1500000000))
    /\ last.err = ProgramError("InvalidSeeds")

\* the handler returned an error or a call it made did
Failed(l) == l.err # Ok \/ \E i \in 1..Len(l.cpis) : l.cpis[i].res # Ok

\* C9: an instruction of this program in which a check or a call fails fails
\* its transaction, and a failed transaction ends with every account as it
\* was before the transaction began.
C9_FailureAborts ==
    [][/\ ((Ran("init") \/ Ran("swap")) /\ Failed(last'))
          => (phase' = "failed" /\ accounts' = accounts)
       /\ phase = "failed"
          => (work' = accounts /\ accounts' = accounts /\ tx' = <<>>)
       /\ accounts' # accounts => (phase = "running" /\ ~Failed(last))]_vars

\* an Initialize failed on its last call, with the pool record written and
\* vault A created in the working copy
C9_Witness ==
    /\ phase = "failed"
    /\ last.op = "init"
    /\ last.stage = "init_vault"
    /\ Len(last.cpis) = 5
    /\ work[LastIx.accounts[2]].owner = ID
    /\ accounts[LastIx.accounts[2]].owner = SYSTEM_PROGRAM
    /\ work[LastIx.accounts[3]].tok.init

\* C10: an Initialize naming 8 accounts and a rate succeeds only if the pool
\* and the two vaults it names are the derived ones; if one of the three is
\* not, it fails with InvalidSeeds before any account is created or written.
C10_InitializeDerivations ==
    [][(Ran("init") /\ Len(NewIx.accounts) = 8 /\ Len(NewIx.data) >= 9)
       => LET pool    == NewIx.accounts[2]
              vault_a == NewIx.accounts[3]
              vault_b == NewIx.accounts[4]
              mint_a  == NewIx.accounts[5]
              mint_b  == NewIx.accounts[6]
              derived ==
                  /\ pool = find_program_address(<<mint_a, mint_b>>, ID).key
                  /\ vault_a = find_program_address(<<pool, mint_a>>, ID).key
                  /\ vault_b = find_program_address(<<pool, mint_b>>, ID).key
          IN  /\ last'.err = Ok => derived
              /\ ~derived => /\ last'.err = ProgramError("InvalidSeeds")
                             /\ last'.cpis = <<>>
                             /\ work' = work]_vars

\* an Initialize naming the derived pool and vault A and another vault B was
\* rejected
C10_Witness ==
    /\ last.op = "init"
    /\ Len(LastIx.accounts) = 8
    /\ LastIx.accounts[2] = POOL
    /\ LastIx.accounts[3] = VAULT_A
    /\ LastIx.accounts[4] = USER_ATA_B
    /\ last.err = ProgramError("InvalidSeeds")
    /\ work = accounts

\* the step runs one more top-level instruction of this program
RanProgram == Ran("init") \/ Ran("swap") \/ Ran("malformed")

\* the steps process_init and process_swap return from
InitStages == {"accounts", "data", "seeds", "create_pool", "borrow", "invoke",
               "create_vault", "init_vault"}

SwapStages == {"accounts", "borrow", "vaults", "cur_idx", "cur_program", "load_prev",
               "prev_program", "prev_len", "prev_disc", "prev_dest", "convert", "invoke",
               "transfer"}

\* the request is rejected with InvalidInstructionData and touches nothing
RejectedAsMalformed ==
    /\ last'.err = ProgramError("InvalidInstructionData")
    /\ last'.cpis = <<>>
    /\ phase' = "failed"
    /\ work' = work

\* opcode 0 with at least 8 bytes after it reaches process_init past its
\* payload check, and opcode 1 reaches process_swap
Dispatched ==
    /\ (NewIx.data # <<>> /\ NewIx.data[1] = 0 /\ Len(NewIx.data) >= 9)
          => last'.stage \in InitStages \ {"data"}
    /\ (NewIx.data # <<>> /\ NewIx.data[1] = 1) => last'.stage \in SwapStages

\* C11 as stated: on every account list, a request with empty data, one
\* whose opcode is neither 0 nor 1 and an Initialize with fewer than 8 bytes
\* after the opcode fail with InvalidInstructionData and touch nothing;
\* opcode 0 with 8 bytes or more reaches Initialize and opcode 1 reaches Swap.
C11_MalformedOnEveryAccountList ==
    [][RanProgram =>
         /\ (\/ NewIx.data = <<>>
             \/ NewIx.data[1] \notin {0, 1}
             \/ NewIx.data[1] = 0 /\ Len(NewIx.data) < 9) => RejectedAsMalformed
         /\ Dispatched]_vars

\* C11: on every account list, a request with empty data and one whose
\* opcode is neither 0 nor 1 fail with InvalidInstructionData and touch
\* nothing; an Initialize with fewer than 8 bytes after the opcode does so
\* when it names exactly 8 accounts, and fails with NotEnoughAccountKeys,
\* touching nothing, when it names another number of accounts, whatever its
\* payload; opcode 0 with 8 bytes or more reaches Initialize and opcode 1
\* reaches Swap.
C11_Malformed ==
    [][RanProgram =>
         /\ (NewIx.data = <<>> \/ NewIx.data[1] \notin {0, 1}) => RejectedAsMalformed
         /\ (NewIx.data # <<>> /\ NewIx.data[1] = 0) =>
               IF Len(NewIx.accounts) # 8
               THEN /\ last'.err = ProgramError("NotEnoughAccountKeys")
                    /\ last'.cpis = <<>>
                    /\ phase' = "failed"
                    /\ work' = work
               ELSE Len(NewIx.data) < 9 => RejectedAsMalformed
         /\ Dispatched]_vars

\* a request with opcode 2 on the accounts of a Swap was rejected right
\* after a deposit into the base vault of an initialised pool
C11_Witness ==
    /\ last.op = "malformed"
    /\ LastIx.data = <<2>>
    /\ Len(LastIx.accounts) = 7
    /\ LastPos > 0
    /\ PrevIx = TransferIx(USER_ATA_A, VAULT_A, USER, U64(1500000000))
    /\ accounts[POOL].owner = ID
    /\ last.err = ProgramError("InvalidInstructionData")
    /\ phase = "failed"

\* the offset of field i of Pool
PoolOffset(i) == offset_of(PoolFields, i)

\* the offsets of the record: rate 0, vault_a 16, vault_b 48, base mint 80,
\* quote mint 112, bump 144
PoolOffsetsAsStated ==
    /\ PoolFields[1].name = "usdc_atoms_per_sol" /\ PoolOffset(1) = 0
    /\ PoolFields[2].name = "vault_a" /\ PoolOffset(2) = 16
    /\ PoolFields[3].name = "vault_b" /\ PoolOffset(3) = 48
    /\ PoolFields[4].name = "pool_seeds"
    /\ PoolOffset(4) + PoolSeedsOffsets.mint_a = 80
    /\ PoolOffset(4) + PoolSeedsOffsets.mint_b = 112
    /\ PoolOffset(4) + PoolSeedsOffsets.bump = 144

\* every account of this program has n bytes, and a Swap is rejected by
\* the borrow of the pool record exactly when the account it names as pool
\* has fewer than n bytes
PoolRecordSizeIs(n) ==
    /\ \A k \in AccountKeys : work[k].owner = ID => work[k].len = n
    /\ (SwapRan /\ Len(LastIx.accounts) = 7) =>
          /\ last.stage = "borrow" <=> work[LastIx.accounts[2]].len < n
          /\ last.stage = "borrow" => last.err = ProgramError("InvalidAccountData")
    /\ (last.op = "init" /\ Len(last.cpis) >= 1 /\ last.cpis[1].res = Ok) =>
          /\ work[LastIx.accounts[2]].len = n
          /\ last.stage # "borrow"

NestedSwapRan == last.op = "nested_swap"

\* the nested Swap passed the checks made before the register is read
NestedSwapReadRegister ==
    /\ NestedSwapRan
    /\ last.stage \notin {"accounts", "borrow", "vaults"}

\* C13: a Swap reached through a nested invocation, the top-level
\* instruction at the current index being one of another program, is
\* rejected without any transfer; when it gets as far as the register the
\* error is that of the test of the position at position 0 and
\* IncorrectProgramId at any later position, returned before instruction
\* i - 1 is inspected.
C13_NestedSwapRejected ==
    NestedSwapRan =>
        /\ LastIx.program_id # ID
        /\ last.err # Ok
        /\ last.cpis = <<>>
        /\ NestedSwapReadRegister =>
              IF LastPos = 0
              THEN last.stage = "cur_idx"
              ELSE /\ last.stage = "cur_program"
                   /\ last.err = ProgramError("IncorrectProgramId")

\* the same for the nested Swaps that name the host's register
C13_NestedSwapRejectedGenuine ==
    (NestedSwapRan /\ GenuineRegister) =>
        /\ last.err # Ok
        /\ last.cpis = <<>>
        /\ NestedSwapReadRegister =>
              IF LastPos = 0
              THEN last.stage = "cur_idx"
              ELSE /\ last.stage = "cur_program"
                   /\ last.err = ProgramError("IncorrectProgramId")

\* a nested Swap naming the host's register was rejected with
\* IncorrectProgramId right after a deposit into the base vault
C13_GenuineWitness ==
    /\ NestedSwapRan
    /\ GenuineRegister
    /\ LastPos > 0
    /\ PrevIx = TransferIx(USER_ATA_A, VAULT_A, USER, U64(1500000000))
    /\ accounts[POOL].owner = ID
    /\ last.err = ProgramError("IncorrectProgramId")

\* the last instruction was an Initialize that returned Ok
InitSucceeded == last.op = "init" /\ last.err = Ok

\* the pool record the last Initialize named
InitPool == work[LastIx.accounts[2]].pool

\* C14: after a successful Initialize with payload r, the pool record holds
\* r zero-extended from 64 to 128 bits as rate, the vault identities the
\* request supplied, which are the derived ones, and as seeds the base mint,
\* the quote mint and the bump of the derivation of the pool.
C14_InitializeWritesRecord ==
    InitSucceeded =>
        /\ Len(LastIx.accounts) = 8
        /\ Len(LastIx.data) >= 9
        /\ Len(InitPool.usdc_atoms_per_sol) = 16
        /\ SubSeq(InitPool.usdc_atoms_per_sol, 1, 8) = SubSeq(LastIx.data, 2, 9)
        /\ SubSeq(InitPool.usdc_atoms_per_sol, 9, 16) = <<0, 0, 0, 0, 0, 0, 0, 0>>
        /\ InitPool.vault_a = LastIx.accounts[3]
        /\ InitPool.vault_b = LastIx.accounts[4]
        /\ InitPool.vault_a = VaultOf(LastIx.accounts[2], LastIx.accounts[5])
        /\ InitPool.vault_b = VaultOf(LastIx.accounts[2], LastIx.accounts[6])
        /\ InitPool.pool_seeds.mint_a = LastIx.accounts[5]
        /\ InitPool.pool_seeds.mint_b = LastIx.accounts[6]
        /\ InitPool.pool_seeds.bump =
              find_program_address(<<LastIx.accounts[5], LastIx.accounts[6]>>, ID).bump
        /\ work[LastIx.accounts[2]].owner = ID

\* an Initialize with payload 2^64 - 1 succeeded and the record holds that
\* rate on 128 bits
C14_Witness ==
    /\ InitSucceeded
    /\ SubSeq(LastIx.data, 2, 9) = U64_MAX
    /\ LastIx.accounts[5] = MINT_B
    /\ LastIx.accounts[6] = MINT_A
    /\ accounts[LastIx.accounts[2]].owner = SYSTEM_PROGRAM
    /\ BigCmp(InitPool.usdc_atoms_per_sol, U64_MAX) = 0
    /\ InitPool.vault_b = VaultOf(PoolOf(<<MINT_B, MINT_A>>), MINT_A)

\* the accounts this program owns: the pools Initialize created
Pools(st) == {k \in AccountKeys : st[k].owner = ID}

\* the identity the capability Swap rebuilds from the seeds stored in the
\* record of pool k signs for
SwapSignerOf(st, k) ==
    create_program_address(Seeds(st[k].pool.pool_seeds.mint_a,
                                 st[k].pool.pool_seeds.mint_b,
                                 st[k].pool.pool_seeds.bump), ID)

\* the two vaults the record of pool k stores
VaultsOf(st, k) == {st[k].pool.vault_a, st[k].pool.vault_b}

\* in st, the capability of every pool derives the pool's own identity, the
\* vaults of a pool that are initialised have that pool as custody owner,
\* and no pool's capability is the custody owner of a vault of another pool
PoolAuthority(st) ==
    \A k \in Pools(st) :
        /\ SwapSignerOf(st, k) = k
        /\ \A v \in VaultsOf(st, k) : st[v].tok.init => st[v].tok.owner = k
        /\ \A k2 \in Pools(st) \ {k} : \A v \in VaultsOf(st, k2) :
              st[v].tok.init => st[v].tok.owner # SwapSignerOf(st, k)

\* C15: in every reachable state, for every pool created by Initialize, the
\* capability rebuilt from the stored seeds derives the pool account's own
\* identity, which is the custody owner of both its vaults and of no other
\* pool's vault; a committed pool has both vaults initialised, and a transfer
\* a Swap gets executed leaves the quote vault of the pool it read, owned by
\* that pool.
C15_PoolAuthority ==
    /\ PoolAuthority(accounts)
    /\ PoolAuthority(work)
    /\ \A k \in Pools(accounts) : \A v \in VaultsOf(accounts, k) : accounts[v].tok.init
    /\ (SwapRan \/ NestedSwapRan) =>
          \A i \in 1..Len(last.cpis) :
              last.cpis[i].res = Ok =>
                  /\ LastIx.accounts[2] \in Pools(work)
                  /\ last.cpis[i].authority = SwapSignerOf(work, LastIx.accounts[2])
                  /\ last.cpis[i].account = SwapPool.vault_b
                  /\ work[last.cpis[i].account].tok.owner = LastIx.accounts[2]

\* a Swap paid out of the quote vault of a committed pool after a deposit
C15_Witness ==
    /\ SwapPaid
    /\ GenuineRegister
    /\ accounts[POOL].owner = ID
    /\ LastIx.accounts[2] = POOL
    /\ last.cpis[1].res = Ok
    /\ last.cpis[1].authority = POOL
    /\ SwapSignerOf(work, POOL) = POOL
    /\ work[VAULT_B].tok.owner = POOL

\* two pools exist, each the custody owner of its own two vaults
C15_WitnessTwoPools ==
    /\ Cardinality(Pools(work)) = 2
    /\ \A k \in Pools(work) : \A v \in VaultsOf(work, k) : work[v].tok.init
    /\ phase = "running"

\* the aliasing check of a call failed
AccountBorrowFailed == ProgramError("AccountBorrowFailed")

\* the last Swap, direct or nested, got as far as issuing its transfer
SwapInvoked ==
    /\ SwapRan \/ NestedSwapRan
    /\ last.stage \in {"invoke", "transfer"}

Succeeded(i) == i < Len(tx) \/ phase = "running"

\* instruction i is a Swap request, sent to this program or passed on to it
\* by OTHER_PROGRAM
IsSwapAt(i) == tx[i].data = <<1>> /\ tx[i].program_id \in {ID, OTHER_PROGRAM}

\* instruction i is a token transfer into the given vault
IsTransferInto(i, vault) ==
    /\ tx[i].program_id = TOKEN_PROGRAM
    /\ Len(tx[i].data) >= 9
    /\ tx[i].data[1] = TRANSFER_DISC
    /\ Len(tx[i].accounts) >= 2
    /\ tx[i].accounts[2] = vault

\* the Swaps of the transaction so far that paid, and its transfers into the
\* base vault
Payouts == {i \in 1..Len(tx) : IsSwapAt(i) /\ Succeeded(i)}

Deposits == {i \in 1..Len(tx) : IsTransferInto(i, VAULT_A) /\ Succeeded(i)}

\* C17: in every transaction, each Swap that paid, sent directly or nested,
\* comes right after a top-level transfer into the base vault of the pool
\* it read, so that the payouts never outnumber those transfers and a Swap
\* right after a Swap is rejected.
C17_OneSwapPerDeposit ==
    /\ \A i \in Payouts :
          /\ i > 1
          /\ IsTransferInto(i - 1, work[tx[i].accounts[2]].pool.vault_a)
    /\ Cardinality(Payouts) <= Cardinality(Deposits)
    /\ \A i \in 2..Len(tx) : (IsSwapAt(i) /\ IsSwapAt(i - 1)) => ~Succeeded(i)

\* the same for the transactions whose Swaps all name the host's register
C17_OneSwapPerDepositGenuine ==
    (\A i \in 1..Len(tx) : IsSwapAt(i) => tx[i].accounts[6] = INSTRUCTIONS_ID) =>
        /\ \A i \in Payouts :
              /\ i > 1
              /\ tx[i].program_id = ID
              /\ IsTransferInto(i - 1, work[tx[i].accounts[2]].pool.vault_a)
        /\ Cardinality(Payouts) <= Cardinality(Deposits)
        /\ \A i \in 2..Len(tx) : (IsSwapAt(i) /\ IsSwapAt(i - 1)) => ~Succeeded(i)

\* two Swaps naming OTHER_DATA as register paid in a transaction without any
\* transfer into the base vault
C17_TwoPayoutsNoDeposit ==
    /\ phase = "running"
    /\ Cardinality(Payouts) = 2
    /\ Deposits = {}
    /\ BigLess(Bal(work, VAULT_B), Bal(accounts, VAULT_B))

\* the step runs one more instruction and lowers the balance of the quote
\* vault of pool k
QuoteVaultDecreases(k) ==
    /\ Len(tx') = Len(tx) + 1
    /\ BigLess(Bal(work', work[k].pool.vault_b), Bal(work, work[k].pool.vault_b))

\* the step is a successful Swap, direct or nested, that names pool k
SwapOfPoolPays(k) ==
    /\ Ran("swap") \/ Ran("nested_swap")
    /\ last'.err = Ok
    /\ last'.stage = "transfer"
    /\ NewIx.accounts[2] = k

\* C18: the balance of the quote vault of a pool goes down only in a
\* successful Swap naming that pool, by floor(amount_in * stored rate / 10^9)
\* where amount_in is the amount of a transfer into that pool's base vault
\* made by the instruction before it in the same transaction; a Swap naming
\* an account that is no pool of this program moves nothing.
C18_QuoteVaultOnlyPaysDeposits ==
    [][/\ \A k \in Pools(work) :
             QuoteVaultDecreases(k) =>
                 /\ SwapOfPoolPays(k)
                 /\ IsSum(Bal(work, work[k].pool.vault_b),
                          Bal(work', work[k].pool.vault_b), last'.amount_out)
                 /\ IsQuotient(last'.amount_out, last'.amount_in,
                               work[k].pool.usdc_atoms_per_sol)
                 /\ Len(tx) >= 1
                 /\ IsTransferInto(Len(tx), work[k].pool.vault_a)
                 /\ SubSeq(tx[Len(tx)].data, 2, 9) = last'.amount_in
       /\ ((Ran("swap") \/ Ran("nested_swap"))
             /\ Len(NewIx.accounts) = 7
             /\ NewIx.accounts[2] \notin Pools(work))
            => (last'.err # Ok /\ work' = work)]_vars

\* the same when the Swap names the host's register
C18_QuoteVaultOnlyPaysDepositsGenuine ==
    [][\A k \in Pools(work) :
          (QuoteVaultDecreases(k) /\ NewIx.accounts[6] = INSTRUCTIONS_ID) =>
              /\ SwapOfPoolPays(k)
              /\ IsSum(Bal(work, work[k].pool.vault_b),
                       Bal(work', work[k].pool.vault_b), last'.amount_out)
              /\ IsQuotient(last'.amount_out, last'.amount_in,
                            work[k].pool.usdc_atoms_per_sol)
              /\ Len(tx) >= 1
              /\ IsTransferInto(Len(tx), work[k].pool.vault_a)
              /\ SubSeq(tx[Len(tx)].data, 2, 9) = last'.amount_in]_vars

\* a Swap, whichever register it names, that names as pool an account this
\* program does not own fails and moves nothing
C18_ForeignPoolMovesNothing ==
    ((SwapRan \/ NestedSwapRan)
        /\ Len(LastIx.accounts) = 7
        /\ work[LastIx.accounts[2]].owner # ID)
    => /\ last.err # Ok
       /\ \A i \in 1..Len(last.cpis) : last.cpis[i].res # Ok

\* after a deposit into the base vault of the funded pool, a Swap naming
\* FAKE_POOL passed every check of the program and its transfer was refused
C18_ForeignPoolWitness ==
    /\ SwapRan
    /\ LastIx.accounts[2] = FAKE_POOL
    /\ LastPos > 0
    /\ PrevIx = TransferIx(USER_ATA_A, VAULT_A, USER, U64(1500000000))
    /\ last.stage = "transfer"
    /\ last.amount_out = Pad(BigMul(U64(3), U64(1000000000)), 8)
    /\ last.cpis[1].res # Ok
    /\ ~BigLess(Bal(work, VAULT_B), last.amount_out)
    /\ Bal(work, VAULT_B) = Bal(accounts, VAULT_B)

\* the register the last Swap read, and the instruction before the current
\* one in it
RegisterRead ==
    Instructions_new_unchecked(LastIx.accounts[6], Register(tx, Len(tx) - 1))

RegisterPrevIx == RegisterRead.instructions[RegisterRead.current]

\* the last Swap, direct or nested, got as far as reading account 1 of the
\* instruction before it
ReadAccountUnchecked ==
    /\ SwapRan \/ NestedSwapRan
    /\ last.stage \in {"prev_dest", "convert", "invoke", "transfer"}

\* C19: whenever validate_prev_ix reads account 1 of instruction i - 1, that
\* instruction targets the token service, has a payload of at least 9 bytes
\* starting with 3, is the instruction the transaction executed just before
\* the Swap, and names at least two accounts.
C19_UncheckedReadInBounds ==
    ReadAccountUnchecked =>
        /\ RegisterPrevIx.program_id = TOKEN_PROGRAM
        /\ Len(RegisterPrevIx.data) >= 9
        /\ RegisterPrevIx.data[1] = TRANSFER_DISC
        /\ LastPos > 0
        /\ RegisterPrevIx = PrevIx
        /\ Len(RegisterPrevIx.accounts) >= 2

\* the same for the Swaps that name the host's register
C19_UncheckedReadInBoundsGenuine ==
    (ReadAccountUnchecked /\ GenuineRegister) =>
        /\ RegisterPrevIx.program_id = TOKEN_PROGRAM
        /\ Len(RegisterPrevIx.data) >= 9
        /\ RegisterPrevIx.data[1] = TRANSFER_DISC
        /\ LastPos > 0
        /\ RegisterPrevIx = PrevIx
        /\ Len(RegisterPrevIx.accounts) >= 3

\* a Swap read account 1 of an instruction naming no account, the read
\* yielded the base vault, and the Swap paid
C19_OutOfBoundsPaid ==
    /\ SwapPaid
    /\ ReadAccountUnchecked
    /\ RegisterPrevIx.accounts = <<>>
    /\ BigLess(Bal(work, VAULT_B), Bal(accounts, VAULT_B))

\* a Swap naming the host's register read account 1 of the transfer before it
C19_GenuineWitness ==
    /\ ReadAccountUnchecked
    /\ GenuineRegister
    /\ RegisterPrevIx = TransferIx(USER_ATA_A, USER_ATA_A, USER, U64(1000000000))
    /\ last.stage = "prev_dest"

====
